---- MODULE Spec2Model ----
(***************************************************************************)
(* XMC UART transmit/receive with FIFO limit interrupts (src/main.c).      *)
(*                                                                         *)
(* Three software contexts share one CPU: main, the transmit handler       *)
(* USIC0_0_IRQHandler and the receive handler USIC0_1_IRQHandler.  The     *)
(* USIC channel is modelled as a TX FIFO, the serial line (bytes being     *)
(* shifted from TX to RX) and an RX FIFO.  The FIFO events are the         *)
(* "standard buffer events" the handlers' header comments describe: one    *)
(* event each time the TX filling level falls below the TX limit, one      *)
(* event each time the RX filling level rises above the RX limit.  An      *)
(* event latches the pending bit of its NVIC line.                         *)
(***************************************************************************)
EXTENDS Integers, Naturals, Sequences, FiniteSets, TLC

(* ------------------------------------------------------------------ *)
(* Program constants                                                   *)
(* ------------------------------------------------------------------ *)
NUM_DATA == 9
USIC0_0_IRQn_PRIORITY == 63
USIC0_1_IRQn_PRIORITY == 62
\* CYBSP_DEBUG_UART_RXFIFO_LIMIT: "Rx FIFO Limit (set to seven)"
RXFIFO_LIMIT == 7
\* "TX FIFO Limit (set to one)"
TXFIFO_LIMIT == 1
\* XMC_USIC_CH_FIFO_SIZE_8WORDS
RXFIFO_SIZE == 8
\* uint8_t buffers
BYTE == 256

(* ------------------------------------------------------------------ *)
(* Bounds of the model                                                 *)
(* ------------------------------------------------------------------ *)
\* words the TX FIFO holds (the handler never keeps more than one queued)
TxFifoSize == 2
\* bytes that can be on the serial line at once
MaxInFlight == 1
\* the comparison-pass counter saturates here
MaxPasses == 2
\* extra corrupted values tried per index by the comparison specification
MaxNoise == 0
\* largest payload size tried by the specification that varies N
MaxNumData == 17

VARIABLES
    num_data,      \* N, the payload size (NUM_DATA in the shipped build)
    tx_data, rx_data, tx_index, rx_index, flag,
    txfifo, line, rxfifo,          \* TX FIFO, serial line, RX FIFO
    rx_limit,                      \* programmed RX trigger limit (32-bit argument)
    tx_event_en,                   \* TX FIFO standard event enabled
    uart_started,
    irq_en, irq_pend, prio,        \* NVIC state per line
    pc, main_i, tmp, seed_byte, adj_snap,   \* main: position and locals
    txh_pc, rxh_pc,                \* handlers: position ("idle" = not active)
    led, passes,
    \* history variables
    tx_log,        \* every byte written to the TX FIFO, in order
    lost,          \* bytes dropped because the RX FIFO was full
    tx_entry,      \* tx_index at the entry of the current/last TX invocation
    tx_pushed,     \* bytes written by the current/last TX invocation
    rx_entry,      \* rx_index at the entry of the current/last RX invocation
    rx_popped,     \* bytes popped by the current/last RX invocation
    oob,           \* a store to rx_data[] outside [0, N-1] happened
    fifo_fault     \* receive on empty RX FIFO or transmit on full TX FIFO

vars == << num_data, tx_data, rx_data, tx_index, rx_index, flag,
           txfifo, line, rxfifo, rx_limit, tx_event_en, uart_started,
           irq_en, irq_pend, prio, pc, main_i, tmp, seed_byte, adj_snap,
           txh_pc, rxh_pc, led, passes,
           tx_log, lost, tx_entry, tx_pushed, rx_entry, rx_popped, oob,
           fifo_fault >>

swVars  == << tx_data, rx_data, tx_index, rx_index, flag >>
hwVars  == << txfifo, line, rxfifo, rx_limit, tx_event_en, uart_started >>
nvicVars == << irq_en, irq_pend, prio >>
mainVars == << pc, main_i, tmp, seed_byte, adj_snap >>
histVars == << tx_log, lost, tx_entry, tx_pushed, rx_entry, rx_popped, oob,
              fifo_fault >>

TX == "USIC0_0_IRQn"
RX == "USIC0_1_IRQn"
Lines == {TX, RX}

(* ------------------------------------------------------------------ *)
(* Hardware primitives                                                 *)
(* ------------------------------------------------------------------ *)
XMC_USIC_CH_TXFIFO_IsFull == Len(txfifo) >= TxFifoSize

XMC_USIC_CH_RXFIFO_IsEmpty == Len(rxfifo) = 0

\* uint32_t values are kept as their two's complement representative in
\* [-2^31, 2^31 - 1]: 0xFFFFFFFF is -1, and sums and differences of the small
\* values of this program need no further reduction.  The unsigned order:
ULess(a, b) == IF (a < 0) = (b < 0) THEN a < b ELSE b < 0

\* (NUM_DATA - rx_index) evaluated in uint32_t
Remaining(idx) == num_data - idx

\* the guard of both threshold adjustments
NeedsAdjust(idx) == ULess(Remaining(idx), RXFIFO_LIMIT)

\* (mutant) the limit is set to the remaining count itself
AdjustedLimit_NoMinus(idx) == Remaining(idx)

\* the limit argument (NUM_DATA - rx_index) - 1 evaluated in uint32_t
AdjustedLimit(idx) == Remaining(idx) - 1

HandlerPc(l) == IF l = TX THEN txh_pc ELSE rxh_pc

Active(l) == HandlerPc(l) # "idle"

\* NVIC: a pending, enabled line whose priority beats every active handler
CanEnter(l) ==
    /\ irq_pend[l]
    /\ irq_en[l]
    /\ ~Active(l)
    /\ \A o \in Lines : Active(o) => prio[l] < prio[o]

\* the context the CPU executes: the active handler of highest priority,
\* main when no handler is active
Running ==
    IF Active(RX) /\ (~Active(TX) \/ prio[RX] < prio[TX]) THEN "rx"
    ELSE IF Active(TX) THEN "tx"
    ELSE "main"

\* a context executes its next statement only when no interrupt is to be taken
Runs(ctx) == Running = ctx /\ \A l \in Lines : ~CanEnter(l)

(* ------------------------------------------------------------------ *)
(* Initial state: after reset and cybsp_init()                         *)
(* ------------------------------------------------------------------ *)
InitWith(n) ==
    /\ num_data = n
    /\ tx_data = [i \in 0..(n - 1) |-> 0]
    /\ rx_data = [i \in 0..(n - 1) |-> 0]
    /\ tx_index = 0
    /\ rx_index = 0
    /\ flag = 0
    /\ txfifo = << >>
    /\ line = << >>
    /\ rxfifo = << >>
    /\ rx_limit = RXFIFO_LIMIT
    /\ tx_event_en = TRUE
    /\ uart_started = FALSE
    /\ irq_en = [l \in Lines |-> FALSE]
    /\ irq_pend = [l \in Lines |-> FALSE]
    /\ prio = [l \in Lines |-> 0]
    /\ pc = "m_fill"
    /\ main_i = 0
    /\ tmp = 0
    /\ seed_byte = 0
    /\ adj_snap = 0
    /\ txh_pc = "idle"
    /\ rxh_pc = "idle"
    /\ led = "LOW"
    /\ passes = 0
    /\ tx_log = << >>
    /\ lost = 0
    /\ tx_entry = 0
    /\ tx_pushed = 0
    /\ rx_entry = 0
    /\ rx_popped = 0
    /\ oob = FALSE
    /\ fifo_fault = FALSE

Init == InitWith(NUM_DATA)

(* ------------------------------------------------------------------ *)
(* The USIC channel                                                    *)
(* ------------------------------------------------------------------ *)
\* XMC_UART_CH_Transmit: write one word to the TX FIFO
TxFifoPut(b) ==
    IF XMC_USIC_CH_TXFIFO_IsFull
    THEN /\ fifo_fault' = TRUE
         /\ UNCHANGED txfifo
         /\ tx_log' = Append(tx_log, b)
    ELSE /\ txfifo' = Append(txfifo, b)
         /\ tx_log' = Append(tx_log, b)
         /\ UNCHANGED fifo_fault

\* the TX FIFO event: the filling level equals the limit and gets lower
TxEventFires == tx_event_en /\ Len(txfifo) = TXFIFO_LIMIT

\* the RX FIFO event: the filling level equals the limit and gets bigger
RxEventFires == Len(rxfifo) = rx_limit

\* the transmitter takes the oldest word of the TX FIFO onto the line
TxShift ==
    /\ uart_started
    /\ Len(txfifo) > 0
    /\ Len(line) < MaxInFlight
    /\ line' = Append(line, Head(txfifo))
    /\ txfifo' = Tail(txfifo)
    /\ irq_pend' = IF TxEventFires THEN [irq_pend EXCEPT ![TX] = TRUE] ELSE irq_pend
    /\ UNCHANGED << num_data, swVars, rxfifo, rx_limit, tx_event_en, uart_started,
                    irq_en, prio, mainVars, txh_pc, rxh_pc, led, passes, histVars >>

\* the receiver stores the word that came over the line in the RX FIFO;
\* a word arriving at a full RX FIFO is dropped
RxArrive ==
    /\ Len(line) > 0
    /\ line' = Tail(line)
    /\ IF Len(rxfifo) >= RXFIFO_SIZE
       THEN /\ lost' = lost + 1
            /\ UNCHANGED << rxfifo, irq_pend >>
       ELSE /\ rxfifo' = Append(rxfifo, Head(line))
            /\ irq_pend' = IF RxEventFires THEN [irq_pend EXCEPT ![RX] = TRUE]
                           ELSE irq_pend
            /\ UNCHANGED lost
    /\ UNCHANGED << num_data, swVars, txfifo, rx_limit, tx_event_en, uart_started,
                    irq_en, prio, mainVars, txh_pc, rxh_pc, led, passes,
                    tx_log, tx_entry, tx_pushed, rx_entry, rx_popped, oob, fifo_fault >>

(* ------------------------------------------------------------------ *)
(* USIC0_0_IRQHandler: the transmit handler                            *)
(* ------------------------------------------------------------------ *)
\* while(XMC_USIC_CH_TXFIFO_IsFull(...)); leaves the loop when there is space
TxFifoHasSpace == ~XMC_USIC_CH_TXFIFO_IsFull

\* (mutant) the handler stops one byte early
TxDataRemains_Short == ULess(tx_index, num_data - 1)

\* if(tx_index < NUM_DATA)
TxDataRemains == ULess(tx_index, num_data)

\* (mutant) the handler sends the byte before the cursor
TxNextByte_Prev == tx_data[tx_index - 1]

\* the argument of XMC_UART_CH_Transmit: tx_data[tx_index]
TxNextByte == tx_data[tx_index]

TxIrq_Enter ==
    /\ CanEnter(TX)
    /\ irq_pend' = [irq_pend EXCEPT ![TX] = FALSE]
    /\ txh_pc' = "tx_test"
    /\ tx_entry' = tx_index
    /\ tx_pushed' = 0
    /\ UNCHANGED << num_data, swVars, hwVars, irq_en, prio, mainVars, rxh_pc,
                    led, passes, tx_log, lost, rx_entry, rx_popped, oob, fifo_fault >>

TxIrq_Test ==
    /\ Runs("tx")
    /\ txh_pc = "tx_test"
    /\ txh_pc' = IF TxDataRemains THEN "tx_transmit" ELSE "tx_disable_event"
    /\ UNCHANGED << num_data, swVars, hwVars, nvicVars, mainVars, rxh_pc,
                    led, passes, histVars >>

TxIrq_Transmit ==
    /\ Runs("tx")
    /\ txh_pc = "tx_transmit"
    /\ TxFifoHasSpace
    /\ TxFifoPut(TxNextByte)
    /\ tx_pushed' = tx_pushed + 1
    /\ txh_pc' = "tx_inc"
    /\ UNCHANGED << num_data, swVars, line, rxfifo, rx_limit, tx_event_en,
                    uart_started, nvicVars, mainVars, rxh_pc, led, passes,
                    lost, tx_entry, rx_entry, rx_popped, oob >>

TxIrq_Inc ==
    /\ Runs("tx")
    /\ txh_pc = "tx_inc"
    /\ tx_index' = tx_index + 1
    /\ txh_pc' = "idle"
    /\ UNCHANGED << num_data, tx_data, rx_data, rx_index, flag, hwVars, nvicVars,
                    mainVars, rxh_pc, led, passes, histVars >>

TxIrq_DisableEvent ==
    /\ Runs("tx")
    /\ txh_pc = "tx_disable_event"
    /\ tx_event_en' = FALSE
    /\ txh_pc' = "tx_disable_irq"
    /\ UNCHANGED << num_data, swVars, txfifo, line, rxfifo, rx_limit, uart_started,
                    nvicVars, mainVars, rxh_pc, led, passes, histVars >>

TxIrq_DisableIRQ ==
    /\ Runs("tx")
    /\ txh_pc = "tx_disable_irq"
    /\ irq_en' = [irq_en EXCEPT ![TX] = FALSE]
    /\ txh_pc' = "idle"
    /\ UNCHANGED << num_data, swVars, hwVars, irq_pend, prio, mainVars, rxh_pc,
                    led, passes, histVars >>

(* ------------------------------------------------------------------ *)
(* USIC0_1_IRQHandler: the receive handler                             *)
(* ------------------------------------------------------------------ *)
\* (mutant) completion is signalled one byte early
AllReceived_Early == rx_index >= num_data - 1

\* if(rx_index == (NUM_DATA))
AllReceived == rx_index = num_data

RxIrq_Enter ==
    /\ CanEnter(RX)
    /\ irq_pend' = [irq_pend EXCEPT ![RX] = FALSE]
    /\ rxh_pc' = "rx_loop"
    /\ rx_entry' = rx_index
    /\ rx_popped' = 0
    /\ UNCHANGED << num_data, swVars, hwVars, irq_en, prio, mainVars, txh_pc,
                    led, passes, tx_log, lost, tx_entry, tx_pushed, oob, fifo_fault >>

\* (mutant) the loop stops with one word left in the RX FIFO
RxFifoHasData_Short == Len(rxfifo) > 1

\* (mutant) the loop is a do-while: it pops once before it tests
RxFifoHasData_DoWhile == rx_popped = 0 \/ ~XMC_USIC_CH_RXFIFO_IsEmpty

\* the condition of the drain loop: !XMC_USIC_CH_RXFIFO_IsEmpty(...)
RxFifoHasData == ~XMC_USIC_CH_RXFIFO_IsEmpty

\* while(!XMC_USIC_CH_RXFIFO_IsEmpty(...))
RxIrq_Loop ==
    /\ Runs("rx")
    /\ rxh_pc = "rx_loop"
    /\ rxh_pc' = IF RxFifoHasData THEN "rx_pop" ELSE "rx_check"
    /\ UNCHANGED << num_data, swVars, hwVars, nvicVars, mainVars, txh_pc,
                    led, passes, histVars >>

\* rx_data[rx_index++] = XMC_UART_CH_GetReceivedData(...)
RxIrq_Pop ==
    /\ Runs("rx")
    /\ rxh_pc = "rx_pop"
    /\ IF XMC_USIC_CH_RXFIFO_IsEmpty
       THEN /\ fifo_fault' = TRUE
            /\ UNCHANGED << rxfifo, rx_data, oob >>
       ELSE /\ rxfifo' = Tail(rxfifo)
            /\ IF rx_index \in DOMAIN rx_data
               THEN /\ rx_data' = [rx_data EXCEPT ![rx_index] = Head(rxfifo) % BYTE]
                    /\ UNCHANGED oob
               ELSE /\ oob' = TRUE
                    /\ UNCHANGED rx_data
            /\ UNCHANGED fifo_fault
    /\ rx_index' = rx_index + 1
    /\ rx_popped' = rx_popped + 1
    /\ rxh_pc' = "rx_loop"
    /\ UNCHANGED << num_data, tx_data, tx_index, flag, txfifo, line, rx_limit,
                    tx_event_en, uart_started, nvicVars, mainVars, txh_pc,
                    led, passes, tx_log, lost, tx_entry, tx_pushed, rx_entry >>

RxIrq_Check ==
    /\ Runs("rx")
    /\ rxh_pc = "rx_check"
    /\ flag' = IF AllReceived THEN 1 ELSE flag
    /\ rxh_pc' = "rx_adjust"
    /\ UNCHANGED << num_data, tx_data, rx_data, tx_index, rx_index, hwVars,
                    nvicVars, mainVars, txh_pc, led, passes, histVars >>

RxIrq_Adjust ==
    /\ Runs("rx")
    /\ rxh_pc = "rx_adjust"
    /\ rx_limit' = IF NeedsAdjust(rx_index) THEN AdjustedLimit(rx_index) ELSE rx_limit
    /\ rxh_pc' = "idle"
    /\ UNCHANGED << num_data, swVars, txfifo, line, rxfifo, tx_event_en,
                    uart_started, nvicVars, mainVars, txh_pc, led, passes, histVars >>

(* ------------------------------------------------------------------ *)
(* main                                                                *)
(* ------------------------------------------------------------------ *)
\* for (uint32_t i = 0; i < NUM_DATA; i++) tx_data[i] = i;
MainFill ==
    /\ Runs("main")
    /\ pc = "m_fill"
    /\ IF main_i < num_data
       THEN /\ tx_data' = [tx_data EXCEPT ![main_i] = main_i % BYTE]
            /\ main_i' = main_i + 1
            /\ UNCHANGED pc
       ELSE /\ pc' = "m_prio0"
            /\ UNCHANGED << tx_data, main_i >>
    /\ UNCHANGED << num_data, rx_data, tx_index, rx_index, flag, hwVars, nvicVars,
                    tmp, seed_byte, adj_snap, txh_pc, rxh_pc, led, passes, histVars >>

\* NVIC_SetPriority(USIC0_0_IRQn, USIC0_0_IRQn_PRIORITY)
MainSetPriority0 ==
    /\ Runs("main")
    /\ pc = "m_prio0"
    /\ prio' = [prio EXCEPT ![TX] = USIC0_0_IRQn_PRIORITY]
    /\ pc' = "m_enable0"
    /\ UNCHANGED << num_data, swVars, hwVars, irq_en, irq_pend, main_i, tmp,
                    seed_byte, adj_snap, txh_pc, rxh_pc, led, passes, histVars >>

\* (mutant) the transmit line is never enabled
MainEnableIRQ0_Skip ==
    /\ Runs("main")
    /\ pc = "m_enable0"
    /\ pc' = "m_enable1"
    /\ UNCHANGED << num_data, swVars, hwVars, nvicVars, main_i, tmp,
                    seed_byte, adj_snap, txh_pc, rxh_pc, led, passes, histVars >>

\* NVIC_EnableIRQ(USIC0_0_IRQn)
MainEnableIRQ0 ==
    /\ Runs("main")
    /\ pc = "m_enable0"
    /\ irq_en' = [irq_en EXCEPT ![TX] = TRUE]
    /\ pc' = "m_enable1"
    /\ UNCHANGED << num_data, swVars, hwVars, irq_pend, prio, main_i, tmp,
                    seed_byte, adj_snap, txh_pc, rxh_pc, led, passes, histVars >>

\* NVIC_EnableIRQ(USIC0_1_IRQn)
MainEnableIRQ1 ==
    /\ Runs("main")
    /\ pc = "m_enable1"
    /\ irq_en' = [irq_en EXCEPT ![RX] = TRUE]
    /\ pc' = "m_prio1"
    /\ UNCHANGED << num_data, swVars, hwVars, irq_pend, prio, main_i, tmp,
                    seed_byte, adj_snap, txh_pc, rxh_pc, led, passes, histVars >>

\* NVIC_SetPriority(USIC0_1_IRQn, USIC0_1_IRQn_PRIORITY)
MainSetPriority1 ==
    /\ Runs("main")
    /\ pc = "m_prio1"
    /\ prio' = [prio EXCEPT ![RX] = USIC0_1_IRQn_PRIORITY]
    /\ pc' = "m_start"
    /\ UNCHANGED << num_data, swVars, hwVars, irq_en, irq_pend, main_i, tmp,
                    seed_byte, adj_snap, txh_pc, rxh_pc, led, passes, histVars >>

\* XMC_UART_CH_Start(CYBSP_DEBUG_UART_HW)
MainStart ==
    /\ Runs("main")
    /\ pc = "m_start"
    /\ uart_started' = TRUE
    /\ pc' = "m_seed_arg"
    /\ UNCHANGED << num_data, swVars, txfifo, line, rxfifo, rx_limit, tx_event_en,
                    nvicVars, main_i, tmp, seed_byte, adj_snap, txh_pc, rxh_pc,
                    led, passes, histVars >>

\* (mutant) the seed does not advance the cursor
SeedIndexAfter_Same == tx_index

\* tx_index after the seed's tx_index++
SeedIndexAfter == tx_index + 1

\* while(IsFull); then the argument tx_data[tx_index++] is evaluated
MainSeedArg ==
    /\ Runs("main")
    /\ pc = "m_seed_arg"
    /\ TxFifoHasSpace
    /\ seed_byte' = tx_data[tx_index]
    /\ tx_index' = SeedIndexAfter
    /\ pc' = "m_seed_transmit"
    /\ UNCHANGED << num_data, tx_data, rx_data, rx_index, flag, hwVars, nvicVars,
                    main_i, tmp, adj_snap, txh_pc, rxh_pc, led, passes, histVars >>

\* XMC_UART_CH_Transmit(CYBSP_DEBUG_UART_HW, <argument>)
MainSeedTransmit ==
    /\ Runs("main")
    /\ pc = "m_seed_transmit"
    /\ TxFifoPut(seed_byte)
    /\ pc' = "m_adjust_test"
    /\ UNCHANGED << num_data, swVars, line, rxfifo, rx_limit, tx_event_en,
                    uart_started, nvicVars, main_i, tmp, seed_byte, adj_snap,
                    txh_pc, rxh_pc, led, passes, lost, tx_entry, tx_pushed,
                    rx_entry, rx_popped, oob >>

\* if((NUM_DATA - rx_index) < CYBSP_DEBUG_UART_RXFIFO_LIMIT)
MainAdjustTest ==
    /\ Runs("main")
    /\ pc = "m_adjust_test"
    /\ adj_snap' = rx_index
    /\ pc' = IF NeedsAdjust(rx_index) THEN "m_adjust_set" ELSE "m_poll"
    /\ UNCHANGED << num_data, swVars, hwVars, nvicVars, main_i, tmp, seed_byte,
                    txh_pc, rxh_pc, led, passes, histVars >>

\* the values of rx_index the limit argument can be computed from: rx_index
\* is not volatile, so the build may reuse the value loaded by the test or
\* load it again
MainAdjustOperands == {adj_snap, rx_index}

\* XMC_USIC_CH_RXFIFO_SetSizeTriggerLimit(..., (NUM_DATA - rx_index) - 1)
MainAdjustSet ==
    /\ Runs("main")
    /\ pc = "m_adjust_set"
    /\ \E v \in MainAdjustOperands : rx_limit' = AdjustedLimit(v)
    /\ pc' = "m_poll"
    /\ UNCHANGED << num_data, swVars, txfifo, line, rxfifo, tx_event_en,
                    uart_started, nvicVars, main_i, tmp, seed_byte, adj_snap,
                    txh_pc, rxh_pc, led, passes, histVars >>

\* while(1) if (flag == 1) { for (int tmp = 0; ...
MainPoll ==
    /\ Runs("main")
    /\ pc = "m_poll"
    /\ flag = 1
    /\ tmp' = 0
    /\ pc' = "m_compare"
    /\ UNCHANGED << num_data, swVars, hwVars, nvicVars, main_i, seed_byte,
                    adj_snap, txh_pc, rxh_pc, led, passes, histVars >>

\* (mutant) a mismatch seen earlier in the pass keeps the LED low
LedLevel_Sticky(k) ==
    IF tx_data[k] # rx_data[k] \/ (k > 0 /\ led = "LOW") THEN "LOW" ELSE "HIGH"

\* the level one iteration of the comparison loop drives
LedLevel(k) == IF tx_data[k] # rx_data[k] THEN "LOW" ELSE "HIGH"

\* one iteration of the comparison loop, or its exit
MainCompare ==
    /\ Runs("main")
    /\ pc = "m_compare"
    /\ IF tmp < num_data
       THEN /\ led' = LedLevel(tmp)
            /\ tmp' = tmp + 1
            /\ UNCHANGED pc
       ELSE /\ pc' = "m_clear"
            /\ UNCHANGED << led, tmp >>
    /\ UNCHANGED << num_data, swVars, hwVars, nvicVars, main_i, seed_byte,
                    adj_snap, txh_pc, rxh_pc, passes, histVars >>

\* (mutant) the pass also re-arms both cursors
MainClear_Rearm ==
    /\ Runs("main")
    /\ pc = "m_clear"
    /\ flag' = 0
    /\ tx_index' = 0
    /\ rx_index' = 0
    /\ passes' = IF passes < MaxPasses THEN passes + 1 ELSE passes
    /\ pc' = "m_poll"
    /\ UNCHANGED << num_data, tx_data, rx_data, hwVars, nvicVars, main_i, tmp,
                    seed_byte, adj_snap, txh_pc, rxh_pc, led, histVars >>

\* flag = 0;
MainClear ==
    /\ Runs("main")
    /\ pc = "m_clear"
    /\ flag' = 0
    /\ passes' = IF passes < MaxPasses THEN passes + 1 ELSE passes
    /\ pc' = "m_poll"
    /\ UNCHANGED << num_data, tx_data, rx_data, tx_index, rx_index, hwVars,
                    nvicVars, main_i, tmp, seed_byte, adj_snap, txh_pc, rxh_pc,
                    led, histVars >>

(* ------------------------------------------------------------------ *)
(* Specifications                                                      *)
(* ------------------------------------------------------------------ *)
Hardware == TxShift \/ RxArrive

TxHandler ==
    \/ TxIrq_Enter \/ TxIrq_Test \/ TxIrq_Transmit \/ TxIrq_Inc
    \/ TxIrq_DisableEvent \/ TxIrq_DisableIRQ

RxHandler ==
    \/ RxIrq_Enter \/ RxIrq_Loop \/ RxIrq_Pop \/ RxIrq_Check \/ RxIrq_Adjust

MainSetup ==
    \/ MainFill \/ MainSetPriority0 \/ MainEnableIRQ0 \/ MainEnableIRQ1
    \/ MainSetPriority1 \/ MainStart \/ MainSeedArg \/ MainSeedTransmit
    \/ MainAdjustTest \/ MainAdjustSet

MainLoop == MainPoll \/ MainCompare \/ MainClear

Cpu == TxHandler \/ RxHandler \/ MainSetup \/ MainLoop

Next == Hardware \/ Cpu

\* the shipped build: N = NUM_DATA
Spec == Init /\ [][Next]_vars

\* the CPU always executes its next instruction, the transmitter always
\* shifts a queued word out and the line always delivers a word in flight
Fairness == WF_vars(Cpu) /\ WF_vars(TxShift) /\ WF_vars(RxArrive)

FairSpec == Spec /\ Fairness

\* builds with a payload shorter than the initial RX trigger limit
InitShort == \E n \in 1..(RXFIFO_LIMIT - 1) : InitWith(n)

ShortSpec == InitShort /\ [][Next]_vars

FairShortSpec == ShortSpec /\ Fairness

\* builds with any payload size up to MaxNumData
InitAnyN == \E n \in 1..MaxNumData : InitWith(n)

AnySpec == InitAnyN /\ [][Next]_vars

\* The comparison pass on every content of rx_data: the state in which main
\* polls flag after a complete session of the shipped build, with the bytes
\* of rx_data as a line that corrupts bytes can have left them.
\* what the byte sent as tx_data[k] can be received as: itself (c = 0), 0xFF
\* (c = 1) or another value (c > 1)
Received(k, c) ==
    IF c = 0 THEN k % BYTE ELSE IF c = 1 THEN 255 ELSE (k + c - 1) % BYTE

InitCmp ==
    /\ num_data = NUM_DATA
    /\ tx_data = [k \in 0..(NUM_DATA - 1) |-> k % BYTE]
    /\ \E c \in [0..(NUM_DATA - 1) -> 0..(MaxNoise + 1)] :
           rx_data = [k \in 0..(NUM_DATA - 1) |-> Received(k, c[k])]
    /\ tx_index = NUM_DATA
    /\ rx_index = NUM_DATA
    /\ flag = 1
    /\ txfifo = << >>
    /\ line = << >>
    /\ rxfifo = << >>
    /\ rx_limit = AdjustedLimit(NUM_DATA)
    /\ tx_event_en = FALSE
    /\ uart_started = TRUE
    /\ irq_en = [l \in Lines |-> l = RX]
    /\ irq_pend = [l \in Lines |-> FALSE]
    /\ prio = [l \in Lines |-> IF l = TX THEN USIC0_0_IRQn_PRIORITY
                                ELSE USIC0_1_IRQn_PRIORITY]
    /\ pc = "m_poll"
    /\ main_i = NUM_DATA
    /\ tmp = 0
    /\ seed_byte = 0
    /\ adj_snap = 0
    /\ txh_pc = "idle"
    /\ rxh_pc = "idle"
    /\ led = "LOW"
    /\ passes = 0
    /\ tx_log = [k \in 1..NUM_DATA |-> (k - 1) % BYTE]
    /\ lost = 0
    /\ tx_entry = NUM_DATA
    /\ tx_pushed = 0
    /\ rx_entry = NUM_DATA - 1
    /\ rx_popped = 1
    /\ oob = FALSE
    /\ fifo_fault = FALSE

CmpSpec == InitCmp /\ [][MainLoop]_vars

(* ------------------------------------------------------------------ *)
(* Properties                                                          *)
(* ------------------------------------------------------------------ *)
\* the loopback lost a byte: a word arrived at a full RX FIFO
LoopbackLossy == lost > 0

\* C1: with the shipped configuration and a lossless loopback, under fair
\* scheduling the completion flag is eventually set to 1 (rx_index reaches N),
\* whatever the interleaving of byte arrivals with the receive handler.
C1_CompletionEventually == <>(LoopbackLossy \/ flag = 1)

\* C2: every fair execution of the shipped configuration with a lossless
\* loopback reaches a state where one comparison pass is finished, the LED was
\* last driven HIGH and flag is 0 again, and from then on the LED stays HIGH.
C2_EndsHigh ==
    <>(LoopbackLossy \/ [](passes >= 1 /\ led = "HIGH" /\ flag = 0))

\* the comparison pass has run to the end of its loop
PassFinished == pc = "m_clear"

C4_HighOnlyIfAllMatch ==
    PassFinished =>
        ((\E k \in 0..(num_data - 1) : rx_data[k] # tx_data[k]) => led = "LOW")

\* C4 failing input: byte 0 received as 0xFF, all other bytes intact
C4_FailingInput ==
    /\ PassFinished
    /\ rx_data[0] = 255
    /\ \A k \in 1..(num_data - 1) : rx_data[k] = tx_data[k]
    /\ led = "HIGH"

\* a receive handler invocation returns
RxReturns == rxh_pc # "idle" /\ rxh_pc' = "idle"

\* a transmit handler invocation returns
TxReturns == txh_pc # "idle" /\ txh_pc' = "idle"

\* C5: flag = 1 implies rx_index = N in every state; flag goes from 0 to 1
\* only in a receive handler invocation whose drain ended with rx_index = N;
\* and every invocation whose drain ends with rx_index = N returns with flag = 1.
C5_FlagIffComplete ==
    /\ [](flag = 1 => rx_index = num_data)
    /\ [][(flag = 0 /\ flag' = 1) =>
            (rxh_pc = "rx_check" /\ rx_index = num_data)]_vars
    /\ [][(RxReturns /\ rx_index = num_data) => flag' = 1]_vars

\* C5 witness: an invocation that drained up to rx_index = N has returned
C5_Witness ==
    /\ rxh_pc = "idle"
    /\ rx_popped > 0
    /\ rx_index = num_data
    /\ flag = 1

\* C6: 0 <= rx_index <= N in every state and no store of the drain loop
\* falls outside rx_data[0 .. N-1].
C6_RxCursorBound == rx_index \in 0..num_data /\ ~oob

\* C6 witness: the drain loop has just stored at index N-1
C6_Witness ==
    /\ rxh_pc = "rx_loop"
    /\ rx_popped > 0
    /\ rx_index = num_data

\* C7: 0 <= tx_index <= N in every state; an invocation of the transmit
\* handler that finds tx_index < N writes exactly tx_data[tx_index] and adds
\* exactly 1 to tx_index; once tx_index = N no step changes it.
C7_TxCursorStep ==
    /\ [](tx_index \in 0..num_data)
    /\ [][(Active(TX) /\ tx_log' # tx_log) =>
            (tx_entry < num_data /\ tx_log' = Append(tx_log, tx_data[tx_entry]))]_vars
    /\ [][(TxReturns /\ tx_entry < num_data) =>
            (tx_index' = tx_entry + 1 /\ tx_pushed' = 1)]_vars
    /\ [][tx_index = num_data => tx_index' = num_data]_vars

\* C7 witness: the invocation that wrote the last byte has returned
C7_Witness ==
    /\ txh_pc = "idle"
    /\ tx_pushed = 1
    /\ tx_entry = num_data - 1
    /\ tx_index = num_data

\* the transmit handler's triggering is disabled: FIFO event and NVIC line
TxTriggerDisabled == ~tx_event_en /\ ~irq_en[TX]

\* C8 (as stated): in every state with tx_index = N all bytes have been
\* written and the transmit handler's triggering is disabled.
C8_DisabledWheneverDone ==
    tx_index = num_data => (Len(tx_log) = num_data /\ TxTriggerDisabled)

\* C8 (amended): the triggering is disabled by the first invocation of the
\* transmit handler that finds tx_index = N, not by the step that makes
\* tx_index = N: every such invocation returns with the FIFO event and the
\* line disabled, the event is disabled only in states where tx_index = N and
\* all N bytes have been written, and under fair scheduling tx_index = N
\* leads to a state where both are disabled.
C8_DisabledAfterFinalInvocation ==
    /\ [](~tx_event_en => (tx_index = num_data /\ Len(tx_log) = num_data))
    /\ [][(TxReturns /\ tx_entry = num_data) => TxTriggerDisabled']_vars
    /\ [][TxTriggerDisabled => TxTriggerDisabled']_vars
    /\ (tx_index = num_data) ~> TxTriggerDisabled

\* C8 witness: the handler found tx_index = N and has returned
C8_Witness ==
    /\ txh_pc = "idle"
    /\ tx_entry = num_data
    /\ tx_index = num_data
    /\ TxTriggerDisabled

\* C9: when a receive handler invocation ends with r = N - rx_index bytes
\* remaining, 0 < r < initial limit, the programmed limit is r - 1; when
\* r >= initial limit the invocation leaves the programmed limit unchanged.
C9_AdaptiveLimit ==
    [][RxReturns =>
        LET r == num_data - rx_index
        IN  /\ (0 < r /\ r < RXFIFO_LIMIT) => rx_limit' = r - 1
            /\ r >= RXFIFO_LIMIT => rx_limit' = rx_limit]_vars

\* C9 witness: an invocation ended with 2 bytes left and programmed limit 1
C9_Witness ==
    /\ rxh_pc = "idle"
    /\ rx_popped > 0
    /\ num_data - rx_index = 2
    /\ rx_limit = 1

\* C10: for every payload size N with 1 <= N < initial limit, under fair
\* scheduling the completion flag is eventually set.
C10_ShortCompletion == <>(flag = 1)

\* main writes the pre-adjusted limit
MainWritesLimit == pc = "m_adjust_set" /\ pc' = "m_poll"

\* C11: when N < initial limit, main's write of the limit N - 1 happens
\* before any byte has arrived: the RX FIFO is empty and nothing has been
\* received at the moment of the write.
C11_PreAdjustBeforeArrival ==
    [][MainWritesLimit => (rxfifo = << >> /\ rx_index = 0 /\ lost = 0)]_vars

\* main's seed: the step that evaluates tx_data[tx_index++]
MainSeedsIndex == pc = "m_seed_arg" /\ pc' = "m_seed_transmit"

\* C12 (as stated): main's seed write to tx_index happens before either
\* interrupt line is armed.
C12_SeedBeforeArmed ==
    [][MainSeedsIndex => (\A l \in Lines : ~irq_en[l])]_vars

\* C12 (amended): the seed write happens after both lines are enabled and the
\* UART is started, but before any byte has been written to the TX FIFO, so
\* no TX FIFO event has been raised: while main is at the seed no transmit
\* handler invocation is active or pending, and tx_index is written only by
\* main's seed (transmit handler not active) or by the transmit handler.
C12_SeedBeforeFirstEvent ==
    /\ [][MainSeedsIndex =>
            ((\A l \in Lines : irq_en[l]) /\ uart_started /\ tx_log = << >>)]_vars
    /\ [](pc \in {"m_seed_arg", "m_seed_transmit"} =>
            (txfifo = << >> /\ ~irq_pend[TX] /\ ~Active(TX)))
    /\ [][tx_index' # tx_index =>
            \/ (MainSeedsIndex /\ ~Active(TX) /\ ~Active(TX)')
            \/ (txh_pc = "tx_inc" /\ pc \notin {"m_seed_arg"})]_vars

\* C12 witness: the seed has been written with both lines armed
C12_Witness ==
    /\ pc = "m_seed_transmit"
    /\ tx_index = 1
    /\ \A l \in Lines : irq_en[l]

\* C13: no receive handler invocation that ends with rx_index = N programs
\* the limit (N - rx_index) - 1 = 0xFFFFFFFF; and within an invocation the
\* order is drain, completion check, threshold adjustment.
C13_NoMinusOneLimit ==
    /\ [][(rxh_pc = "rx_adjust" /\ rxh_pc' = "idle" /\ rx_index = num_data) =>
            rx_limit' # -1]_vars
    /\ [][rxh_pc' # rxh_pc =>
            /\ rxh_pc' = "rx_check" => rxh_pc = "rx_loop"
            /\ rxh_pc' = "rx_adjust" => rxh_pc = "rx_check"
            /\ rxh_pc' = "rx_pop" => rxh_pc = "rx_loop"]_vars

\* C14: the bytes written to the TX FIFO over a session (main's seed plus the
\* transmit handler) are tx_data[0], ..., tx_data[N-1], each once and in index
\* order; the invocation of the transmit handler that finds tx_index = N
\* disables the FIFO event and the line, and the handler is not invoked again.
C14_ExactOutput ==
    /\ [](/\ Len(tx_log) <= num_data
          /\ \A k \in 1..Len(tx_log) :
                tx_log[k] = tx_data[k - 1] /\ tx_log[k] = (k - 1) % BYTE)
    /\ [][(TxReturns /\ tx_entry = num_data) =>
            (TxTriggerDisabled' /\ Len(tx_log) = num_data)]_vars
    /\ [][TxTriggerDisabled => ~Active(TX)']_vars
    /\ <>(Len(tx_log) = num_data /\ TxTriggerDisabled)

\* C14 witness: all N bytes written and the handler has disabled itself
C14_Witness ==
    /\ txh_pc = "idle"
    /\ Len(tx_log) = num_data
    /\ tx_log[num_data] = tx_data[num_data - 1]
    /\ TxTriggerDisabled

\* C15: in every receive handler invocation rx_index grows by the number of
\* words popped, each popped word is stored at the next index in FIFO order,
\* and the drain loop is left only when the RX FIFO is empty.
C15_DrainAccounting ==
    /\ [](rx_index = rx_entry + rx_popped)
    /\ [][(rxh_pc = "rx_pop" /\ rxh_pc' # "rx_pop") =>
            /\ rxfifo # << >>
            /\ rxfifo' = Tail(rxfifo)
            /\ rx_index' = rx_index + 1
            /\ rx_popped' = rx_popped + 1
            /\ rx_data' = [rx_data EXCEPT ![rx_index] = Head(rxfifo) % BYTE]]_vars
    /\ [][(rxh_pc = "rx_loop" /\ rxh_pc' = "rx_check") => rxfifo = << >>]_vars

\* C15 witness: one invocation drained a full RX FIFO and left the loop
C15_Witness ==
    /\ rxh_pc = "rx_check"
    /\ rx_popped = RXFIFO_SIZE
    /\ rx_index = rx_entry + RXFIFO_SIZE
    /\ rxfifo = << >>

\* C16: the RX FIFO is never read while empty and the TX FIFO is never
\* written while full, in main's seed and in every handler invocation.
C16_NoFifoFault ==
    /\ ~fifo_fault
    /\ rxh_pc = "rx_pop" => ~XMC_USIC_CH_RXFIFO_IsEmpty
    /\ pc = "m_seed_transmit" => ~XMC_USIC_CH_TXFIFO_IsFull

\* C16 witness: every byte has been written and read without a fault
C16_Witness ==
    /\ Len(tx_log) = num_data
    /\ rx_index = num_data
    /\ rxh_pc = "idle"
    /\ ~fifo_fault

\* a step of the receive handler, of the transmit handler, of the main loop
RxStep == rxh_pc' # rxh_pc

TxStep == txh_pc' # txh_pc

MainLoopStep ==
    /\ pc \in {"m_poll", "m_compare", "m_clear"}
    /\ << pc, tmp >>' # << pc, tmp >>

\* C17: receive handler steps leave tx_index and tx_data unchanged; transmit
\* handler steps leave rx_index, rx_data, flag and the RX limit unchanged;
\* main-loop steps leave rx_index, rx_data, tx_index and tx_data unchanged and
\* write no shared variable but flag (cleared); tx_data keeps the values
\* 0..N-1 once filled.
C17_FrameConditions ==
    /\ [][RxStep => UNCHANGED << tx_index, tx_data >>]_vars
    /\ [][TxStep => UNCHANGED << rx_index, rx_data, flag, rx_limit >>]_vars
    /\ [][MainLoopStep =>
            /\ UNCHANGED << rx_index, rx_data, tx_index, tx_data >>
            /\ flag' # flag => (pc = "m_clear" /\ flag' = 0)]_vars
    /\ [][pc # "m_fill" => tx_data' = tx_data]_vars
    /\ [](pc # "m_fill" => tx_data = [k \in 0..(num_data - 1) |-> k % BYTE])

\* C17 witness: both handlers and a comparison pass have run
C17_Witness ==
    /\ passes >= 1
    /\ tx_index = num_data
    /\ rx_index = num_data
    /\ pc = "m_poll"

\* C18: no received byte is lost to RX FIFO overflow, whatever the
\* interleaving of byte arrivals with the start of the receive handler.
C18_NoOverflow == lost = 0

\* C19 (as stated): rx_data[i] = tx_data[i] = i for every i < rx_index, and
\* rx_index <= tx_index.
C19_MirrorBelowTxIndex ==
    /\ \A k \in 0..(rx_index - 1) : rx_data[k] = tx_data[k] /\ rx_data[k] = k
    /\ rx_index <= tx_index

\* C19 (amended): the filled part of rx_data is a prefix of tx_data, and
\* rx_index never exceeds the number of bytes written to the TX FIFO, which
\* is at most tx_index + 1; rx_index <= tx_index holds except while the
\* transmit handler, preempted by the receive handler, is between its write
\* and its tx_index++.
C19_MirrorOfWritten ==
    /\ \A k \in 0..(rx_index - 1) : rx_data[k] = tx_data[k] /\ rx_data[k] = k
    /\ rx_index <= Len(tx_log)
    /\ Len(tx_log) <= tx_index + 1
    /\ txh_pc # "tx_inc" => rx_index <= tx_index

\* C19 witness: the receive handler has stored a byte the transmit handler
\* has written but not yet counted
C19_Witness ==
    /\ txh_pc = "tx_inc"
    /\ rx_index = tx_index + 1
    /\ rx_data[rx_index - 1] = tx_data[rx_index - 1]

\* main is inside a comparison pass
InPass == pc \in {"m_compare", "m_clear"}

\* the safety part of C20: during a pass no receive handler invocation is
\* active and rx_data, rx_index do not change, flag changes only by main's
\* clear; flag rises only before the first pass; at most one pass is run
PassRaceFree ==
    /\ [](InPass => (~Active(RX) /\ ~irq_pend[RX] /\ flag = 1))
    /\ [][InPass => (UNCHANGED << rx_data, rx_index >> /\
                     (flag' # flag => pc = "m_clear"))]_vars
    /\ [][(flag = 0 /\ flag' = 1) => passes = 0]_vars
    /\ [](passes <= 1)

\* C20: the comparison pass is race-free and happens once: no receive
\* handler invocation touches rx_data, rx_index or flag during a pass, flag
\* is set at most once, and exactly one comparison pass is executed.
C20_RaceFreeOnePass ==
    /\ PassRaceFree
    /\ <>(LoopbackLossy \/ passes = 1)

====
